---- MODULE Spec2Model ----
(***************************************************************************)
(* A model of the actix data receiver (src/src/main.rs): the PUT           *)
(* /{database_name}/{table_name} handler create_data, the GET /ping        *)
(* handler, and the log level selection of actix_main.                     *)
(*                                                                         *)
(* The handler create_data runs on several worker threads at once.  Each   *)
(* request walks through the statements of the handler in order: open the  *)
(* store file, CREATE TABLE IF NOT EXISTS, decode the body, read the       *)
(* clock, INSERT.  Every `.unwrap()` of an Err panics: the request ends    *)
(* without any HTTP response (resp = "panic").                             *)
(***************************************************************************)
EXTENDS Integers, FiniteSets, Sequences, TLC

VARIABLES
    rootExists,  \* does the directory args.database_files exist
    store0,      \* the store root as the service found it at startup
    store,       \* the files <root>/<database_name>.db and the tables in them
    lock,        \* per store file: the request holding SQLite's write lock
    req,         \* the PUT requests: position in create_data and its locals
    clock,       \* the wall clock read by Utc::now()
    pong,        \* the last response of GET /ping
    boot         \* startup: the flags, RUST_LOG and the selected log level

vars == <<rootExists, store0, store, lock, req, clock, pong, boot>>

----------------------------------------------------------------------------
(* Bounds of the model *)

MaxReqs == 2     \* PUT requests issued in one behaviour
MaxClock == 1    \* ticks of the wall clock

----------------------------------------------------------------------------
(* Names taken from the request path *)

Databases == {"shop"}
\* "orders" and "legacy" are valid SQL identifiers, "1bad" is not
Tables == {"orders", "legacy", "1bad"}
WellFormed == {"orders", "legacy"}

Reqs == 1..MaxReqs
NoReq == 0

----------------------------------------------------------------------------
(* Request bodies.  A body is raw bytes; what matters of it is whether it  *)
(* decodes as UTF-8, which syntax the text has, the document it denotes    *)
(* and whether it is written in the minified form json() produces.         *)

\* {"curl test": true}   (line 57: valid JSON with insignificant blanks)
BodyCurl == [enc |-> "utf8", syntax |-> "json", val |-> "curl", minified |-> FALSE]
\* {'actix test': true, 'timestamp': 'timestamp'}   (line 265: single quotes)
BodySingleQuoted == [enc |-> "utf8", syntax |-> "json5", val |-> "actix", minified |-> FALSE]
\* {not json
BodyGarbage == [enc |-> "utf8", syntax |-> "garbage", val |-> "none", minified |-> FALSE]
\* bytes that are not UTF-8, e.g. 0xFF 0xFE
BodyNotUtf8 == [enc |-> "bytes", syntax |-> "garbage", val |-> "none", minified |-> FALSE]

Bodies == {BodyCurl, BodySingleQuoted, BodyGarbage, BodyNotUtf8}

\* str::from_utf8(&body) is Ok
from_utf8_ok(body) == body.enc = "utf8"

\* faulty variant: any text is stored
json_accepts_mut(body) == TRUE
\* SQLite's json(:data) accepts the text: strict JSON, and the JSON5 forms
\* (single quoted strings) that the repository's test posts and expects 201 for
json_accepts(body) == body.syntax \in {"json", "json5"}

\* faulty variant: the document is lost
json_mut(body) == [syntax |-> "json", val |-> "none", minified |-> TRUE]
\* the text json(:data) stores: the same document, minified, as strict JSON
json(body) == [syntax |-> "json", val |-> body.val, minified |-> TRUE]

----------------------------------------------------------------------------
(* Stores and tables *)

\* the shape CREATE TABLE gives a table
Shape == {"id", "timestamp", "data"}
\* the shape of a table made by another program
ForeignShape == {"id", "name"}

NoTable == [exists |-> FALSE, shape |-> {}, rows |-> {}]
NoFile == [exists |-> FALSE, tables |-> [t \in Tables |-> NoTable]]
EmptyFile == [exists |-> TRUE, tables |-> [t \in Tables |-> NoTable]]

FileExists(s, d) == s[d].exists
TableExists(s, d, t) == s[d].exists /\ s[d].tables[t].exists
Rows(s, d, t) == s[d].tables[t].rows
ShapeOf(s, d, t) == s[d].tables[t].shape
Ids(rows) == {row.id : row \in rows}

\* id INTEGER PRIMARY KEY: the rowid is one more than the largest in the table
NextId(rows) ==
    IF rows = {} THEN 1
    ELSE (CHOOSE m \in Ids(rows) : \A i \in Ids(rows) : i <= m) + 1

\* Connection::open(database): opens the file, creating it when absent
open(s, d) == IF s[d].exists THEN s ELSE [s EXCEPT ![d] = EmptyFile]

\* faulty variants: CREATE TABLE without IF NOT EXISTS semantics (the table is
\* made anew), and a provisioning step that does nothing
create_table_mut(s, d, t) ==
    [s EXCEPT ![d].tables[t] = [exists |-> TRUE, shape |-> Shape, rows |-> {}]]
create_table_noop(s, d, t) == s
\* CREATE TABLE IF NOT EXISTS {table_name} (...)
create_table(s, d, t) ==
    IF s[d].tables[t].exists THEN s
    ELSE [s EXCEPT ![d].tables[t] = [exists |-> TRUE, shape |-> Shape, rows |-> {}]]

\* faulty variant: the new row replaces the rows of the table
insert_mut(s, d, t, id, timestamp, body) ==
    [s EXCEPT ![d].tables[t].rows =
        {[id |-> id, timestamp |-> timestamp, data |-> json(body)]}]
\* INSERT INTO {table_name} (timestamp, data) VALUES (:timestamp, json(:data))
insert(s, d, t, id, timestamp, body) ==
    [s EXCEPT ![d].tables[t].rows =
        @ \cup {[id |-> id, timestamp |-> timestamp, data |-> json(body)]}]

\* the INSERT names the columns timestamp and data
insert_fits(s, d, t) == {"timestamp", "data"} \subseteq s[d].tables[t].shape

\* faulty variant: writers do not exclude each other
lock_free_mut(d) == TRUE
\* SQLite lets one connection at a time write a store file; the others wait
\* (rusqlite sets a busy handler on every connection it opens)
lock_free(d) == lock[d] = NoReq

----------------------------------------------------------------------------
(* Requests *)

Idle ==
    [pc |-> "idle", d |-> "shop", t |-> "orders", body |-> BodyCurl,
     timestamp |-> 0, id |-> 0, resp |-> "none", failed |-> "none"]

Done(r) == req[r].pc = "done"

\* `.unwrap()` of an Err: the handler panics, no response is written
panicked(r, where) ==
    [req EXCEPT ![r].pc = "done", ![r].resp = "panic", ![r].failed = where]

----------------------------------------------------------------------------
(* The service after startup with the default flags *)

Unset == "<unset>"

Booted ==
    [pc |-> "serving", debug |-> FALSE, verbose |-> FALSE, env |-> Unset,
     env_rust_log |-> "not set", level |-> "WARN"]

\* what the store root may hold when the service starts: nothing, or a store
\* left by an earlier run (a row in "orders") next to a table made by another
\* program ("legacy")
InitialStores ==
    { [d \in Databases |-> NoFile],
      [d \in Databases |->
          [EmptyFile EXCEPT
              !.tables["orders"] =
                  [exists |-> TRUE, shape |-> Shape,
                   rows |-> {[id |-> 1, timestamp |-> 0, data |-> json(BodyCurl)]}],
              !.tables["legacy"] =
                  [exists |-> TRUE, shape |-> ForeignShape, rows |-> {}]]] }

\* faulty variant: the wrong body
ping_mut == [status |-> 200, body |-> [ping |-> "ping"]]
\* the /ping response: Ok(web::Json(PongResponse { ping: "pong" }))
ping == [status |-> 200, body |-> [ping |-> "pong"]]

NoPong == [status |-> 0, body |-> [ping |-> ""]]

Init ==
    /\ rootExists \in BOOLEAN
    /\ store0 \in IF rootExists THEN InitialStores ELSE {[d \in Databases |-> NoFile]}
    /\ store = store0
    /\ lock = [d \in Databases |-> NoReq]
    /\ req = [r \in Reqs |-> Idle]
    /\ clock = 0
    /\ pong = NoPong
    /\ boot = Booted

----------------------------------------------------------------------------
(* PUT /{database_name}/{table_name} *)

\* a request arrives and is routed to create_data
Put(r, d, t, body) ==
    /\ req[r].pc = "idle"
    /\ \A q \in Reqs : q < r => req[q].pc # "idle"
    /\ req' = [req EXCEPT ![r] =
                 [Idle EXCEPT !.pc = "open", !.d = d, !.t = t, !.body = body]]
    /\ UNCHANGED <<rootExists, store0, store, lock, clock, pong, boot>>

\* let conn = Connection::open(database).unwrap();
Open(r) ==
    /\ req[r].pc = "open"
    /\ IF rootExists
       THEN /\ store' = open(store, req[r].d)
            /\ req' = [req EXCEPT ![r].pc = "create"]
       ELSE /\ req' = panicked(r, "open")
            /\ UNCHANGED store
    /\ UNCHANGED <<rootExists, store0, lock, clock, pong, boot>>

\* conn.execute(&sql_create_table.to_string(), ()).unwrap();
CreateTable(r) ==
    /\ req[r].pc = "create"
    /\ IF req[r].t \in WellFormed
       THEN /\ TableExists(store, req[r].d, req[r].t) \/ lock_free(req[r].d)
            /\ store' = create_table(store, req[r].d, req[r].t)
            /\ req' = [req EXCEPT ![r].pc = "decode"]
       ELSE /\ req' = panicked(r, "create")
            /\ UNCHANGED store
    /\ UNCHANGED <<rootExists, store0, lock, clock, pong, boot>>

\* match str::from_utf8(&body) ...; let timestamp = Utc::now();
Decode(r) ==
    /\ req[r].pc = "decode"
    /\ IF from_utf8_ok(req[r].body)
       THEN req' = [req EXCEPT ![r].pc = "insert", ![r].timestamp = clock]
       ELSE req' = [req EXCEPT ![r].pc = "done", ![r].resp = "BadRequest"]
    /\ UNCHANGED <<rootExists, store0, store, lock, clock, pong, boot>>

\* conn.execute(&sql_insert.to_string(), ...): the statement takes the write
\* lock of the store file, evaluates json(:data) and picks the new rowid
InsertBegin(r) ==
    /\ req[r].pc = "insert"
    /\ lock_free(req[r].d)
    /\ IF json_accepts(req[r].body) /\ insert_fits(store, req[r].d, req[r].t)
       THEN /\ req' = [req EXCEPT ![r].pc = "commit",
                         ![r].id = NextId(Rows(store, req[r].d, req[r].t))]
            /\ lock' = [lock EXCEPT ![req[r].d] = r]
       ELSE /\ req' = panicked(r, "insert")
            /\ UNCHANGED lock
    /\ UNCHANGED <<rootExists, store0, store, clock, pong, boot>>

\* ... the statement commits the row and releases the lock; .unwrap() is Ok;
\* Ok(HttpResponse::Created())
InsertCommit(r) ==
    /\ req[r].pc = "commit"
    /\ store' = insert(store, req[r].d, req[r].t, req[r].id, req[r].timestamp,
                       req[r].body)
    /\ lock' = [lock EXCEPT ![req[r].d] = NoReq]
    /\ req' = [req EXCEPT ![r].pc = "done", ![r].resp = "Created"]
    /\ UNCHANGED <<rootExists, store0, clock, pong, boot>>

\* time passes
Tick ==
    /\ clock < MaxClock
    /\ clock' = clock + 1
    /\ UNCHANGED <<rootExists, store0, store, lock, req, pong, boot>>

\* GET /ping
Ping ==
    /\ pong' = ping
    /\ UNCHANGED <<rootExists, store0, store, lock, req, clock, boot>>

Next ==
    \/ \E r \in Reqs, d \in Databases, t \in Tables, body \in Bodies : Put(r, d, t, body)
    \/ \E r \in Reqs : Open(r)
    \/ \E r \in Reqs : CreateTable(r)
    \/ \E r \in Reqs : Decode(r)
    \/ \E r \in Reqs : InsertBegin(r)
    \/ \E r \in Reqs : InsertCommit(r)
    \/ Tick
    \/ Ping

Spec == Init /\ [][Next]_vars

----------------------------------------------------------------------------
(* Startup: actix_main selects the log level from the flags and RUST_LOG *)

\* values of the environment variable RUST_LOG (Unset: the variable is absent)
EnvValues == {Unset, "debug", "info", "warn", "error", "trace", "DEBUG", "", "not set"}

\* fn get_env_var(key): the value, or "not set"
get_env_var(env) == IF env = Unset THEN "not set" ELSE env

\* let tracing_log_level = if args.debug || env_rust_log == *"debug" {...}
tracing_log_level(debug, verbose, env_rust_log) ==
    IF debug \/ env_rust_log = "debug" THEN "DEBUG"
    ELSE IF verbose \/ env_rust_log = "info" THEN "INFO"
    ELSE "WARN"

\* main: Args::parse() has read the flags; the environment holds RUST_LOG
InitLog ==
    /\ boot \in [pc : {"main"}, debug : BOOLEAN, verbose : BOOLEAN,
                 env : EnvValues, env_rust_log : {""}, level : {"unset"}]
    /\ rootExists = TRUE
    /\ store0 = [d \in Databases |-> NoFile]
    /\ store = store0
    /\ lock = [d \in Databases |-> NoReq]
    /\ req = [r \in Reqs |-> Idle]
    /\ clock = 0
    /\ pong = NoPong

\* let env_rust_log = get_env_var("RUST_LOG");
GetEnvVar ==
    /\ boot.pc = "main"
    /\ boot' = [boot EXCEPT !.pc = "env", !.env_rust_log = get_env_var(boot.env)]
    /\ UNCHANGED <<rootExists, store0, store, lock, req, clock, pong>>

\* let tracing_log_level = ...; FmtSubscriber ... with_max_level(tracing_log_level)
SelectLevel ==
    /\ boot.pc = "env"
    /\ boot' = [boot EXCEPT !.pc = "level",
                  !.level = tracing_log_level(boot.debug, boot.verbose,
                                              boot.env_rust_log)]
    /\ UNCHANGED <<rootExists, store0, store, lock, req, clock, pong>>

\* HttpServer::new(...).bind(...)?.run()
Serve ==
    /\ boot.pc = "level"
    /\ boot' = [boot EXCEPT !.pc = "serving"]
    /\ UNCHANGED <<rootExists, store0, store, lock, req, clock, pong>>

NextLog ==
    \/ GetEnvVar
    \/ SelectLevel
    \/ Serve

SpecLog == InitLog /\ [][NextLog]_vars

----------------------------------------------------------------------------
(* Properties *)

\* the document a text denotes when parsed
Parse(text) == text.val
\* the payload is valid (strict) JSON
ValidJson(body) == body.enc = "utf8" /\ body.syntax = "json"
\* request r takes a step of create_data (or arrives)
StepBy(r) == req'[r] # req[r]
\* request r has arrived and names table t of store d
Targets(r, d, t) == req[r].pc # "idle" /\ req[r].d = d /\ req[r].t = t
\* the rows of every table
AllRows(s) == [d \in Databases |-> [t \in Tables |-> Rows(s, d, t)]]
\* the store root is there, the names are well formed and table t of store d,
\* where it exists, has the shape the service gives its tables
Healthy(s, d, t) ==
    /\ rootExists
    /\ t \in WellFormed
    /\ TableExists(s, d, t) => ShapeOf(s, d, t) = Shape

\* C1: a PUT of valid JSON to well formed names, the store root being there
\* (a fresh store included), ends 201 Created; the step that answers 201 adds
\* exactly one row to table t of store d, with an identifier new to the table,
\* the timestamp the request read from the clock while it ran and a document
\* that parses to the payload; no step of the request adds any other row.
C1_OneRowPerCreated ==
    [][\A r \in Reqs : StepBy(r) =>
        LET q == req'[r] IN
        /\ (req[r].pc = "decode" /\ q.pc = "insert") => q.timestamp = clock
        /\ IF q.resp = "Created"
           THEN \E row \in Rows(store', q.d, q.t) :
                  /\ row \notin Rows(store, q.d, q.t)
                  /\ row.id \notin Ids(Rows(store, q.d, q.t))
                  /\ row.timestamp = q.timestamp
                  /\ Parse(row.data) = Parse(q.body)
                  /\ row.data.syntax = "json"
                  /\ AllRows(store') =
                       [AllRows(store) EXCEPT ![q.d][q.t] = @ \cup {row}]
           ELSE AllRows(store') = AllRows(store)
        /\ (q.pc = "done" /\ ValidJson(q.body) /\ Healthy(store, q.d, q.t))
              => q.resp = "Created"
      ]_vars

\* C1 witness: a store that was absent at startup holds the one row of a
\* finished 201 request whose payload was not in the stored (minified) form
C1_Witness ==
    \E r \in Reqs :
        /\ Done(r) /\ req[r].resp = "Created" /\ req[r].body = BodyCurl
        /\ ~FileExists(store0, req[r].d)
        /\ Rows(store, req[r].d, req[r].t) =
             {[id |-> 1, timestamp |-> req[r].timestamp, data |-> json(BodyCurl)]}
        /\ req[r].timestamp = 1

\* C2 (as claimed): a PUT whose body is not UTF-8, the storage being healthy,
\* responds 400 and writes nothing: a table absent before a step of the
\* request is absent after it and no row count changes.
C2_BadEncodingWritesNothing ==
    [][\A r \in Reqs :
         (StepBy(r) /\ ~from_utf8_ok(req'[r].body)
            /\ rootExists /\ req'[r].t \in WellFormed) =>
           /\ req'[r].pc = "done" => req'[r].resp = "BadRequest"
           /\ \A d \in Databases, t \in Tables :
                /\ TableExists(store', d, t) => TableExists(store, d, t)
                /\ Rows(store', d, t) = Rows(store, d, t)
      ]_vars

\* C3 (as claimed): a PUT whose body is text but not valid JSON, a single
\* quoted object included, never ends 201 and changes no row.
C3_NonJsonRejected ==
    [][\A r \in Reqs :
         (StepBy(r) /\ from_utf8_ok(req'[r].body) /\ req'[r].body.syntax # "json") =>
           /\ req'[r].resp # "Created"
           /\ AllRows(store') = AllRows(store)
      ]_vars

\* C3 (amended): a PUT whose body is text that is neither JSON nor a JSON5 form
\* SQLite's json() reads never ends 201 and changes no row: every existing row
\* stays as it was.
C3_GarbageRejected ==
    [][\A r \in Reqs :
         (StepBy(r) /\ from_utf8_ok(req'[r].body) /\ req'[r].body.syntax = "garbage") =>
           /\ req'[r].resp # "Created"
           /\ AllRows(store') = AllRows(store)
      ]_vars

\* C3 witness: a request with such a body was turned down at the INSERT, and
\* the row the table held at startup is still there
C3_Witness ==
    \E r \in Reqs :
        /\ Done(r) /\ req[r].body = BodyGarbage /\ req[r].failed = "insert"
        /\ req[r].resp = "panic"
        /\ Rows(store0, req[r].d, req[r].t) # {}
        /\ Rows(store, req[r].d, req[r].t) = Rows(store0, req[r].d, req[r].t)

\* the requests to table t of store d that were answered 201
CreatedIn(d, t) == {r \in Reqs : Targets(r, d, t) /\ req[r].resp = "Created"}

C5_IdempotentProvisioning ==
    [][/\ \A d \in Databases, t \in Tables :
            /\ TableExists(store, d, t) =>
                 (TableExists(store', d, t) /\ ShapeOf(store', d, t) = ShapeOf(store, d, t))
            /\ (~TableExists(store, d, t) /\ TableExists(store', d, t)) =>
                 (ShapeOf(store', d, t) = Shape /\ Rows(store', d, t) = {})
            /\ Cardinality(Ids(Rows(store', d, t))) = Cardinality(Rows(store', d, t))
       /\ \A r \in Reqs :
            (req[r].pc = "create" /\ req'[r].pc = "decode"
               /\ TableExists(store, req[r].d, req[r].t)) => store' = store
      ]_vars

\* C5 witness: two finished writes to a table that did not exist at startup:
\* the table has the three column shape and their two rows
C5_Witness ==
    \E r1, r2 \in Reqs :
        /\ r1 < r2 /\ Done(r1) /\ Done(r2)
        /\ req[r1].resp = "Created" /\ req[r2].resp = "Created"
        /\ req[r1].d = req[r2].d /\ req[r1].t = req[r2].t
        /\ ~TableExists(store0, req[r1].d, req[r1].t)
        /\ ShapeOf(store, req[r1].d, req[r1].t) = Shape
        /\ Ids(Rows(store, req[r1].d, req[r1].t)) = {1, 2}
        /\ req[r1].id # req[r2].id

\* C6: every GET /ping is answered 200 with the body {"ping":"pong"}, in
\* whatever state the service and the storage are, and changes no store, table,
\* row, lock or request.
C6_PingPong ==
    [][pong' # pong =>
         /\ pong'.status = 200
         /\ pong'.body = [ping |-> "pong"]
         /\ UNCHANGED <<rootExists, store0, store, lock, req>>
      ]_vars

\* C6 witness: a ping was answered although the store root does not exist and
\* a PUT has just failed on it
C6_Witness ==
    /\ pong = [status |-> 200, body |-> [ping |-> "pong"]]
    /\ ~rootExists
    /\ \E r \in Reqs : req[r].failed = "open"

\* C7 (as claimed): a request that met a storage failure (open, CREATE TABLE or
\* INSERT) is answered with a server error.
C7_StorageFailureIs5xx ==
    \A r \in Reqs :
        (Done(r) /\ req[r].failed # "none") => req[r].resp = "ServerError"

\* C8: no step removes or changes a row: every row of every table is in the
\* same table, with the same identifier, timestamp and document, after the step.
C8_AppendOnly ==
    [][\A d \in Databases, t \in Tables :
          Rows(store, d, t) \subseteq Rows(store', d, t)]_vars

\* C8 witness: a table holds the row it had at startup and a row added since,
\* and another request has failed meanwhile
C8_Witness ==
    \E d \in Databases, t \in Tables :
        /\ Rows(store0, d, t) # {}
        /\ Rows(store0, d, t) \subseteq Rows(store, d, t)
        /\ Cardinality(Rows(store, d, t)) = Cardinality(Rows(store0, d, t)) + 1
        /\ \E r \in Reqs : Done(r) /\ req[r].resp = "panic"

\* C10: provisioning comes before the insert and is not undone by it: the step
\* in which the INSERT of a request fails leaves table t in store d and adds no
\* row; a request to that table that finishes after the failure with a valid
\* payload is answered 201, and its row is in that same table, whose shape was
\* not touched.
C10_TableOutlivesFailedInsert ==
    [][\A r \in Reqs :
         /\ (StepBy(r) /\ req'[r].failed = "insert") =>
              /\ req[r].pc = "insert"
              /\ TableExists(store', req[r].d, req[r].t)
              /\ store' = store
         /\ req[r].failed = "insert" =>
              \A r2 \in Reqs :
                (StepBy(r2) /\ req'[r2].pc = "done"
                   /\ Targets(r2, req[r].d, req[r].t)
                   /\ ValidJson(req[r2].body)
                   /\ ShapeOf(store, req[r].d, req[r].t) = Shape) =>
                  /\ req'[r2].resp = "Created"
                  /\ TableExists(store, req[r].d, req[r].t)
                  /\ ShapeOf(store', req[r].d, req[r].t) = Shape
                  /\ \E row \in Rows(store', req[r].d, req[r].t) :
                        row.id = req[r2].id /\ row \notin Rows(store, req[r].d, req[r].t)
      ]_vars

\* C10 witness: the first request created the table and failed at the INSERT;
\* the second, a valid write to the same table, was answered 201 and the table
\* holds its row and no other
C10_Witness ==
    /\ MaxReqs >= 2
    /\ Done(1) /\ req[1].failed = "insert" /\ req[1].body = BodyGarbage
    /\ ~TableExists(store0, req[1].d, req[1].t)
    /\ Done(2) /\ req[2].resp = "Created" /\ ValidJson(req[2].body)
    /\ req[2].d = req[1].d /\ req[2].t = req[1].t
    /\ Ids(Rows(store, req[1].d, req[1].t)) = {req[2].id}

\* C9 (as claimed): a flag decides the level whatever RUST_LOG holds (--debug:
\* DEBUG, --verbose alone: INFO); without a flag RUST_LOG=debug gives DEBUG,
\* RUST_LOG=info gives INFO and anything else WARN.
C9_EnvOnlyAsFallback ==
    boot.pc \in {"level", "serving"} =>
        /\ boot.debug => boot.level = "DEBUG"
        /\ (boot.verbose /\ ~boot.debug) => boot.level = "INFO"
        /\ (~boot.debug /\ ~boot.verbose) =>
             boot.level = (IF boot.env = "debug" THEN "DEBUG"
                           ELSE IF boot.env = "info" THEN "INFO" ELSE "WARN")

====
